---------------------------- MODULE Spec2Model ----------------------------
(***************************************************************************)
(* reposync: keeps a directory of git working copies in step with the      *)
(* repositories of a GitHub team.  The model follows src/src/main.rs (the  *)
(* program: local scan, pull tasks, paginated fetch, clone tasks, join,    *)
(* report) and src/src/git.rs (the reconciliation and pagination library). *)
(*                                                                         *)
(* Text (names, the prefix, git's stdout and stderr) is a sequence of      *)
(* one-character strings, so that replace, starts_with and trim_ascii are  *)
(* computed as the code computes them.                                     *)
(***************************************************************************)
EXTENDS Naturals, Sequences, FiniteSets

VARIABLES
    github_team_prefix,   \* main.rs:302   the configured team prefix
    server,               \* the list the remote endpoint holds, in its page order
    local_repos,          \* main.rs:304   Vec<LocalRepo>
    pc,                   \* position of the orchestrating code
    page,                 \* main.rs:91 / git.rs:170
    repos,                \* main.rs:90 / git.rs:169
    request_failed,       \* whether some page request or decode has failed
    github_team_repos,    \* main.rs:320
    new_repos,            \* main.rs:322
    archived_local_repos, \* git.rs:57 result
    threads,              \* main.rs:308   Vec<JoinHandle<..>>, with each task's state
    joined,               \* number of handles the loop of main.rs:336 has awaited
    error_messages,       \* main.rs:334
    ok_messages,          \* main.rs:335
    printed,              \* the lines print_git_message has written
    output,               \* the result of one git subprocess (classification runs)
    outcome               \* what handle_pull / handle_clone made of `output`

vars == <<github_team_prefix, server, local_repos, pc, page, repos,
          request_failed, github_team_repos, new_repos, archived_local_repos,
          threads, joined, error_messages, ok_messages, printed, output,
          outcome>>

---------------------------------------------------------------------------
(* Bounds of the model *)

\* most repositories the endpoint holds
MaxRemote == 2
\* most working copies under the root directory
MaxLocal == 2
\* repositories the endpoint serves a page; the program asks for
\* per_page=100 (main.rs:71, git.rs:131)
PageSize == 1

---------------------------------------------------------------------------
(* Text *)

\* str::starts_with
StartsWith(s, p) ==
    /\ Len(p) <= Len(s)
    /\ SubSeq(s, 1, Len(p)) = p

\* str::replace(pat, ""): every non-overlapping match of pat, found left to
\* right, is removed; the empty pattern matches between characters and
\* removing it changes nothing.
RECURSIVE ReplaceWithEmpty(_, _)
ReplaceWithEmpty(s, pat) ==
    IF pat = <<>> \/ s = <<>> THEN s
    ELSE IF StartsWith(s, pat)
         THEN ReplaceWithEmpty(SubSeq(s, Len(pat) + 1, Len(s)), pat)
         ELSE <<Head(s)>> \o ReplaceWithEmpty(Tail(s), pat)

Range(s) == {s[i] : i \in 1..Len(s)}

---------------------------------------------------------------------------
(* Repositories *)

\* struct RemoteRepo: the URL is opaque to the program and travels with the
\* repository it names.
RemoteRepo(n, arch) == [name |-> n, archived |-> arch, git_url |-> <<"git@">> \o n]

\* the directory `dir` under repo_root_dir
PathUnderRoot(dir) == [root |-> "repo_root_dir", dir |-> dir]

\* struct LocalRepo, as list_local_repos builds it from a directory entry
LocalRepo(n) == [name |-> n, path |-> PathUnderRoot(n)]

\* Names of repositories and of directories: one without the prefix "t", one
\* that starts with it, one that holds it twice.
Names == {<<"a">>, <<"t", "a">>, <<"t", "t", "a">>}

\* Team prefixes: none (the help text of main.rs:180 allows it), or "t"
Prefixes == {<<>>, <<"t">>}

\* sequences of at most n elements of S, without repetition
RECURSIVE DistinctSeqs(_, _)
DistinctSeqs(S, n) ==
    IF n = 0 THEN {<<>>}
    ELSE LET shorter == DistinctSeqs(S, n - 1)
         IN  shorter \cup
             UNION {{Append(s, x) : x \in S \ Range(s)} : s \in shorter}

\* what the endpoint can hold: repositories of pairwise distinct names, each
\* archived or not
RemoteLists ==
    UNION {{[i \in 1..Len(ns) |-> RemoteRepo(ns[i], f[i])] :
                f \in [1..Len(ns) -> BOOLEAN]} :
           ns \in DistinctSeqs(Names, MaxRemote)}

\* what the scan of the root directory can return: directory names are
\* pairwise distinct, their order is the file system's
LocalLists ==
    {[i \in 1..Len(ns) |-> LocalRepo(ns[i])] : ns \in DistinctSeqs(Names, MaxLocal)}

---------------------------------------------------------------------------
(* Reconciliation: git.rs:45-80 and 184-196, main.rs:131-142 and 283-293.   *)
(* Iterator::filter(..).collect() is SelectSeq: it keeps the order.          *)

\* the directory name a remote repository is compared and cloned under
DirWithoutPrefix(remote_repo, prefix) == ReplaceWithEmpty(remote_repo.name, prefix)

is_known_repo(remote_repo, locals, prefix) ==
    \E i \in 1..Len(locals) : locals[i].name = DirWithoutPrefix(remote_repo, prefix)

\* a find_new_repos whose filter lost its negation
find_new_repos_known(remote_repos, locals, prefix) ==
    LET Keep(repo) == is_known_repo(repo, locals, prefix)
    IN  SelectSeq(remote_repos, Keep)

find_new_repos(remote_repos, locals, prefix) ==
    LET Keep(repo) == ~is_known_repo(repo, locals, prefix)
    IN  SelectSeq(remote_repos, Keep)

find_archived_local_repos(remote_archived_repos, locals, prefix) ==
    LET Keep(repo) == is_known_repo(repo, locals, prefix)
    IN  SelectSeq(remote_archived_repos, Keep)

list_active_github_team_repos(git_repos) ==
    LET Keep(repo) == ~repo.archived
    IN  SelectSeq(git_repos, Keep)

\* a list_archived_github_team_repos that kept the filter of the active list
list_archived_not_archived(git_repos) ==
    LET Keep(repo) == ~repo.archived
    IN  SelectSeq(git_repos, Keep)

list_archived_github_team_repos(git_repos) ==
    LET Keep(repo) == repo.archived
    IN  SelectSeq(git_repos, Keep)

---------------------------------------------------------------------------
(* Text of the git subprocess and its classification: main.rs:185-252 *)

\* the sentinel of main.rs:210: "Already up to date."
TextAlreadyUpToDate ==
    <<"A", "l", "r", "e", "a", "d", "y", " ", "u", "p", " ", "t", "o", " ",
      "d", "a", "t", "e", ".">>

\* main.rs:215: "updated"
TextUpdated ==
    <<"u", "p", "d", "a", "t", "e", "d">>

\* main.rs:248: "cloned"
TextCloned ==
    <<"c", "l", "o", "n", "e", "d">>

\* main.rs:197: "Pulling failed with message:"
TextPullingFailed ==
    <<"P", "u", "l", "l", "i", "n", "g", " ", "f", "a", "i", "l", "e", "d",
      " ", "w", "i", "t", "h", " ", "m", "e", "s", "s", "a", "g", "e", ":">>

\* git's sentinel in lower case: "already up to date."
TextLowerUpToDate ==
    <<"a", "l", "r", "e", "a", "d", "y", " ", "u", "p", " ", "t", "o", " ",
      "d", "a", "t", "e", ".">>

\* what git pull --rebase prints when nothing changed: "Current branch main is up to date."
TextRebaseUpToDate ==
    <<"C", "u", "r", "r", "e", "n", "t", " ", "b", "r", "a", "n", "c", "h",
      " ", "m", "a", "i", "n", " ", "i", "s", " ", "u", "p", " ", "t", "o",
      " ", "d", "a", "t", "e", ".">>

\* the head of a fast-forward summary: "Fast-forward"
TextFastForward ==
    <<"F", "a", "s", "t", "-", "f", "o", "r", "w", "a", "r", "d">>

\* git's notice of a successful rebase, written to stderr: "Successfully rebased and updated refs/heads/main."
TextRebased ==
    <<"S", "u", "c", "c", "e", "s", "s", "f", "u", "l", "l", "y", " ", "r",
      "e", "b", "a", "s", "e", "d", " ", "a", "n", "d", " ", "u", "p", "d",
      "a", "t", "e", "d", " ", "r", "e", "f", "s", "/", "h", "e", "a", "d",
      "s", "/", "m", "a", "i", "n", ".">>

\* Scenario E's stderr: "fatal: repository not found"
TextNotFound ==
    <<"f", "a", "t", "a", "l", ":", " ", "r", "e", "p", "o", "s", "i", "t",
      "o", "r", "y", " ", "n", "o", "t", " ", "f", "o", "u", "n", "d">>

\* an io::Error of Command::output: "No such file or directory"
TextNoSuchFile ==
    <<"N", "o", " ", "s", "u", "c", "h", " ", "f", "i", "l", "e", " ", "o",
      "r", " ", "d", "i", "r", "e", "c", "t", "o", "r", "y">>

\* u8::is_ascii_whitespace, the characters trim_ascii removes
AsciiWhitespace == {" ", "\t", "\n", "\f", "\r"}

RECURSIVE TrimStart(_)
TrimStart(s) ==
    IF s # <<>> /\ Head(s) \in AsciiWhitespace THEN TrimStart(Tail(s)) ELSE s

RECURSIVE TrimEnd(_)
TrimEnd(s) ==
    IF s # <<>> /\ s[Len(s)] \in AsciiWhitespace
    THEN TrimEnd(SubSeq(s, 1, Len(s) - 1))
    ELSE s

\* <[u8]>::trim_ascii
TrimAscii(s) == TrimEnd(TrimStart(s))

\* struct GitMessage
GitMessage(n, m) == [name |-> n, message |-> m]

\* Result<GitMessage, GitMessage>: Err goes to error_messages, Ok to ok_messages
ResultOk(m) == [ok |-> TRUE, value |-> m]
ResultErr(m) == [ok |-> FALSE, value |-> m]

\* Result<std::process::Output, std::io::Error> of Command::output
SpawnFailed(e) == [spawned |-> FALSE, error |-> e]
Ran(st, out, err) == [spawned |-> TRUE, status |-> st, stdout |-> out, stderr |-> err]

\* The closure of handle_pull, applied to the result of git_pull.  The text
\* is valid UTF-8 (from_utf8(..).unwrap() panics otherwise); the exit status
\* is not read.  The two progress bars advance in the branches that return
\* Ok: pull_pb in both, new_commits_pb with "updated".
PullResult(name, res) ==
    IF ~res.spawned
    THEN ResultErr(GitMessage(name, TextPullingFailed \o res.error))
    ELSE IF TrimAscii(res.stderr) # <<>>
         THEN ResultErr(GitMessage(name, TrimAscii(res.stderr)))
         ELSE IF TrimAscii(res.stdout) # TextAlreadyUpToDate
              THEN ResultOk(GitMessage(name, TextUpdated))
              ELSE ResultOk(GitMessage(name, <<>>))

\* The closure of handle_clone: the result of git_clone is dropped (let _ =)
CloneResult(name, res) == ResultOk(GitMessage(name, TextCloned))

---------------------------------------------------------------------------
(* Values of the variables a specification does not use *)

NoTasks ==
    /\ threads = <<>>
    /\ joined = 0
    /\ error_messages = <<>>
    /\ ok_messages = <<>>
    /\ printed = <<>>

NoOutput ==
    /\ output = [kind |-> "none"]
    /\ outcome = [kind |-> "none"]

NoFetch ==
    /\ page = 1
    /\ repos = <<>>
    /\ request_failed = FALSE

---------------------------------------------------------------------------
(* SpecReconcile: the three-way diff of git.rs applied to a fetched list   *)

InitReconcile ==
    /\ github_team_prefix \in Prefixes
    /\ server = <<>>
    /\ repos \in RemoteLists          \* what get_all_repos returned
    /\ local_repos \in LocalLists     \* what list_local_repos returned
    /\ pc = "fetched"
    /\ page = 1
    /\ request_failed = FALSE
    /\ github_team_repos = <<>>
    /\ new_repos = <<>>
    /\ archived_local_repos = <<>>
    /\ NoTasks
    /\ NoOutput

\* active and archived lists, then new and archived-but-local repositories
Reconcile ==
    /\ pc = "fetched"
    /\ github_team_repos' = list_active_github_team_repos(repos)
    /\ new_repos' =
           find_new_repos(github_team_repos', local_repos, github_team_prefix)
    /\ archived_local_repos' =
           find_archived_local_repos(list_archived_github_team_repos(repos),
                                     local_repos, github_team_prefix)
    /\ pc' = "reconciled"
    /\ UNCHANGED <<github_team_prefix, server, local_repos, page, repos,
                   request_failed, threads, joined, error_messages,
                   ok_messages, printed, output, outcome>>

NextReconcile == Reconcile

SpecReconcile == InitReconcile /\ [][NextReconcile]_vars

---------------------------------------------------------------------------
(* SpecClassify: handle_pull and handle_clone on the result of one         *)
(* finished git subprocess                                                 *)

\* white space git's text may be wrapped in
Pads == {<<>>, <<"\n">>, <<" ">>}

StdoutTexts ==
    {l \o phrase \o r :
        l \in Pads, r \in Pads,
        phrase \in {TextAlreadyUpToDate, TextLowerUpToDate, TextRebaseUpToDate,
                    TextFastForward, <<>>}}

StderrTexts ==
    {<<>>, <<"\n">>, TextRebased \o <<"\n">>, TextNotFound \o <<"\n">>}

ExitStatuses == {0, 1, 128}

GitOutputs ==
    {SpawnFailed(TextNoSuchFile)} \cup
    {Ran(st, out, err) : st \in ExitStatuses, out \in StdoutTexts, err \in StderrTexts}

InitClassify ==
    /\ github_team_prefix = <<"t">>
    /\ server = <<>>
    /\ local_repos = <<>>
    /\ pc = "ran"
    /\ NoFetch
    /\ github_team_repos = <<>>
    /\ new_repos = <<>>
    /\ archived_local_repos = <<>>
    /\ NoTasks
    /\ output \in GitOutputs
    /\ outcome = [kind |-> "none"]

\* the task of handle_pull for the working copy "a"
HandlePull ==
    /\ pc = "ran"
    /\ outcome' = [kind |-> "pull", result |-> PullResult(<<"a">>, output)]
    /\ pc' = "classified"
    /\ UNCHANGED <<github_team_prefix, server, local_repos, page, repos,
                   request_failed, github_team_repos, new_repos,
                   archived_local_repos, threads, joined, error_messages,
                   ok_messages, printed, output>>

\* the task of handle_clone for the remote repository "ta"
HandleClone ==
    /\ pc = "ran"
    /\ outcome' = [kind |-> "clone", result |-> CloneResult(<<"t", "a">>, output)]
    /\ pc' = "classified"
    /\ UNCHANGED <<github_team_prefix, server, local_repos, page, repos,
                   request_failed, github_team_repos, new_repos,
                   archived_local_repos, threads, joined, error_messages,
                   ok_messages, printed, output>>

NextClassify == HandlePull \/ HandleClone

SpecClassify == InitClassify /\ [][NextClassify]_vars

---------------------------------------------------------------------------
(* SpecFetch: the pagination of git.rs (get_repos, get_all_repos) followed *)
(* by list_active_github_team_repos                                        *)

Min(x, y) == IF x <= y THEN x ELSE y

\* the endpoint's answer to page=n: PageSize repositories, fewer on the last
\* page, none beyond it
ServerPage(n) == SubSeq(server, (n - 1) * PageSize + 1, Min(n * PageSize, Len(server)))

NoPage == [some |-> FALSE]
SomePage(rs) == [some |-> TRUE, repos |-> rs]

\* git.rs get_repos on a response that arrived and decoded: None when no
\* repository of the page starts with the prefix
get_repos_git(n, prefix) ==
    LET Keep(repo) == StartsWith(repo.name, prefix)
        next_paged_repos == SelectSeq(ServerPage(n), Keep)
    IN  IF next_paged_repos = <<>> THEN NoPage ELSE SomePage(next_paged_repos)

InitFetch ==
    /\ github_team_prefix \in Prefixes
    /\ server \in RemoteLists
    /\ local_repos = <<>>
    /\ pc = "fetching"
    /\ NoFetch
    /\ github_team_repos = <<>>
    /\ new_repos = <<>>
    /\ archived_local_repos = <<>>
    /\ NoTasks
    /\ NoOutput

\* one turn of the while-let loop of get_all_repos; a request that fails or
\* does not decode is None as well
GetAllReposStep ==
    /\ pc = "fetching"
    /\ \E arrived \in BOOLEAN :
          LET got == IF arrived THEN get_repos_git(page, github_team_prefix)
                     ELSE NoPage
          IN  /\ request_failed' = (request_failed \/ ~arrived)
              /\ IF got.some
                 THEN /\ repos' = repos \o got.repos
                      /\ page' = page + 1
                      /\ pc' = "fetching"
                 ELSE /\ pc' = "fetched"
                      /\ UNCHANGED <<repos, page>>
    /\ UNCHANGED <<github_team_prefix, server, local_repos, github_team_repos,
                   new_repos, archived_local_repos, threads, joined,
                   error_messages, ok_messages, printed, output, outcome>>

ListActive ==
    /\ pc = "fetched"
    /\ github_team_repos' = list_active_github_team_repos(repos)
    /\ pc' = "listed"
    /\ UNCHANGED <<github_team_prefix, server, local_repos, page, repos,
                   request_failed, new_repos, archived_local_repos, threads,
                   joined, error_messages, ok_messages, printed, output,
                   outcome>>

NextFetch == GetAllReposStep \/ ListActive

SpecFetch == InitFetch /\ [][NextFetch]_vars

---------------------------------------------------------------------------
(* Spec: one run of main (main.rs:295-353)                                 *)

\* What a git subprocess of a task can return; handle_pull and handle_clone
\* then make the task's result of it.
TaskOutputs ==
    { SpawnFailed(TextNoSuchFile),
      Ran(0, TextAlreadyUpToDate \o <<"\n">>, <<>>),
      Ran(0, TextFastForward \o <<"\n">>, <<>>),
      Ran(128, <<>>, TextNotFound \o <<"\n">>) }

\* main.rs get_repos on a response that arrived and decoded: None when the
\* page is empty
get_repos_main(n) ==
    IF ServerPage(n) = <<>> THEN NoPage ELSE SomePage(ServerPage(n))

\* the filters that end list_github_team_repos (main.rs:96-100)
FilterTeamRepos(rs, prefix) ==
    LET Active(repo) == ~repo.archived
        Prefixed(repo) == StartsWith(repo.name, prefix)
    IN  SelectSeq(SelectSeq(rs, Active), Prefixed)

\* the working copy git_clone writes: `git clone <url> <dir>` run in
\* repo_root_dir (main.rs:45-50)
CloneDestination(remote_repo, prefix) ==
    PathUnderRoot(DirWithoutPrefix(remote_repo, prefix))

\* a spawned task (a JoinHandle and the blocking closure behind it)
PullTask(local_repo) ==
    [kind |-> "pull", name |-> local_repo.name, path |-> local_repo.path,
     state |-> "running"]
CloneTask(new_repo, prefix) ==
    [kind |-> "clone", name |-> new_repo.name,
     path |-> CloneDestination(new_repo, prefix), state |-> "running"]

\* pulls for the local repositories that map to an active remote repository
\* only
PullTargetsKnownRemotely(locals) ==
    LET Mapped(local_repo) ==
            \E i \in 1..Len(server) :
                /\ ~server[i].archived
                /\ DirWithoutPrefix(server[i], github_team_prefix) = local_repo.name
    IN  SelectSeq(locals, Mapped)

\* the repositories main spawns a pull task for (main.rs:316)
PullTargets(locals) == locals

\* Init: the arguments are parsed and the root directory is scanned
\* (main.rs:297-304); nothing is spawned or fetched yet.
Init ==
    /\ github_team_prefix \in Prefixes
    /\ server \in RemoteLists
    /\ local_repos \in LocalLists
    /\ pc = "spawn_pulls"
    /\ NoFetch
    /\ github_team_repos = <<>>
    /\ new_repos = <<>>
    /\ archived_local_repos = <<>>
    /\ NoTasks
    /\ NoOutput

\* main.rs:316-318
SpawnPulls ==
    /\ pc = "spawn_pulls"
    /\ LET targets == PullTargets(local_repos)
       IN  threads' = threads \o [i \in 1..Len(targets) |-> PullTask(targets[i])]
    /\ pc' = "fetching"
    /\ UNCHANGED <<github_team_prefix, server, local_repos, page, repos,
                   request_failed, github_team_repos, new_repos,
                   archived_local_repos, joined, error_messages, ok_messages,
                   printed, output, outcome>>

\* one turn of the while-let loop of list_github_team_repos (main.rs:92-95);
\* when get_repos returns None the loop ends and the list is filtered
FetchPage ==
    /\ pc = "fetching"
    /\ \E arrived \in BOOLEAN :
          LET got == IF arrived THEN get_repos_main(page) ELSE NoPage
          IN  /\ request_failed' = (request_failed \/ ~arrived)
              /\ IF got.some
                 THEN /\ repos' = repos \o got.repos
                      /\ page' = page + 1
                      /\ pc' = "fetching"
                      /\ UNCHANGED github_team_repos
                 ELSE /\ github_team_repos' =
                             FilterTeamRepos(repos, github_team_prefix)
                      /\ pc' = "spawn_clones"
                      /\ UNCHANGED <<repos, page>>
    /\ UNCHANGED <<github_team_prefix, server, local_repos, new_repos,
                   archived_local_repos, threads, joined, error_messages,
                   ok_messages, printed, output, outcome>>

\* main.rs:322-332
SpawnClones ==
    /\ pc = "spawn_clones"
    /\ new_repos' = find_new_repos(github_team_repos, local_repos, github_team_prefix)
    /\ threads' = threads \o [i \in 1..Len(new_repos') |->
                                  CloneTask(new_repos'[i], github_team_prefix)]
    /\ pc' = "joining"
    /\ UNCHANGED <<github_team_prefix, server, local_repos, page, repos,
                   request_failed, github_team_repos, archived_local_repos,
                   joined, error_messages, ok_messages, printed, output,
                   outcome>>

\* a pull task's closure runs git pull and returns (main.rs:192-226)
PullTaskFinish(i) ==
    /\ threads[i].kind = "pull"
    /\ threads[i].state = "running"
    /\ \E res \in TaskOutputs :
          threads' = [threads EXCEPT ![i] =
                         [kind |-> "pull", name |-> @.name, path |-> @.path,
                          state |-> "finished",
                          result |-> PullResult(@.name, res)]]
    /\ UNCHANGED <<github_team_prefix, server, local_repos, pc, page, repos,
                   request_failed, github_team_repos, new_repos,
                   archived_local_repos, joined, error_messages, ok_messages,
                   printed, output, outcome>>

\* a clone task's closure runs git clone and returns (main.rs:239-250)
CloneTaskFinish(i) ==
    /\ threads[i].kind = "clone"
    /\ threads[i].state = "running"
    /\ \E res \in TaskOutputs :
          threads' = [threads EXCEPT ![i] =
                         [kind |-> "clone", name |-> @.name, path |-> @.path,
                          state |-> "finished",
                          result |-> CloneResult(@.name, res)]]
    /\ UNCHANGED <<github_team_prefix, server, local_repos, pc, page, repos,
                   request_failed, github_team_repos, new_repos,
                   archived_local_repos, joined, error_messages, ok_messages,
                   printed, output, outcome>>

\* a loop that takes the handles from the back of the vector
JoinIndexFromBack(k) == Len(threads) - k

\* the handle the loop of main.rs:336 awaits after k handles: the next of
\* the vector
JoinIndex(k) == k + 1

\* a loop that leaves at the first Err
AfterJoinStopAtError(res, k) ==
    IF k = Len(threads) \/ ~res.ok THEN "report" ELSE "joining"

\* where main goes after a handle's result res, the k-th of the vector, is
\* pushed: on to the next handle whatever res is
AfterJoin(res, k) == IF k = Len(threads) THEN "report" ELSE "joining"

\* one turn of the loop of main.rs:336-345: thread.await returns once the
\* task has finished, and its result goes to one of the two vectors
Join ==
    /\ pc = "joining"
    /\ joined < Len(threads)
    /\ LET i == JoinIndex(joined)
       IN  /\ threads[i].state = "finished"
           /\ IF threads[i].result.ok
              THEN /\ ok_messages' = Append(ok_messages, threads[i].result.value)
                   /\ UNCHANGED error_messages
              ELSE /\ error_messages' = Append(error_messages, threads[i].result.value)
                   /\ UNCHANGED ok_messages
           /\ joined' = joined + 1
           /\ pc' = AfterJoin(threads[i].result, joined')
    /\ UNCHANGED <<github_team_prefix, server, local_repos, page, repos,
                   request_failed, github_team_repos, new_repos,
                   archived_local_repos, threads, printed, output, outcome>>

\* the loop of main.rs:336 over no handle at all
JoinNothing ==
    /\ pc = "joining"
    /\ Len(threads) = 0
    /\ pc' = "report"
    /\ UNCHANGED <<github_team_prefix, server, local_repos, page, repos,
                   request_failed, github_team_repos, new_repos,
                   archived_local_repos, threads, joined, error_messages,
                   ok_messages, printed, output, outcome>>

\* print_git_message: a title and the message for every message that is not
\* empty, in the order of the vector
RECURSIVE print_git_message(_, _)
print_git_message(messages, title_prefix) ==
    IF messages = <<>> THEN <<>>
    ELSE IF Head(messages).message = <<>>
         THEN print_git_message(Tail(messages), title_prefix)
         ELSE <<[title |-> title_prefix, name |-> Head(messages).name,
                 text |-> Head(messages).message]>>
              \o print_git_message(Tail(messages), title_prefix)

\* main.rs:351-352
Report ==
    /\ pc = "report"
    /\ printed' = print_git_message(error_messages, "ERROR in")
                      \o print_git_message(ok_messages, "Info for")
    /\ pc' = "done"
    /\ UNCHANGED <<github_team_prefix, server, local_repos, page, repos,
                   request_failed, github_team_repos, new_repos,
                   archived_local_repos, threads, joined, error_messages,
                   ok_messages, output, outcome>>

Next ==
    \/ SpawnPulls
    \/ FetchPage
    \/ SpawnClones
    \/ \E i \in 1..Len(threads) : PullTaskFinish(i)
    \/ \E i \in 1..Len(threads) : CloneTaskFinish(i)
    \/ Join
    \/ JoinNothing
    \/ Report

Spec == Init /\ [][Next]_vars

\* The blocking pool of spawn_blocking runs every spawned closure, the git
\* subprocess it waits for returns, and main is polled whenever the future
\* it awaits is ready: a step that stays possible is taken.
FairSpec == Spec /\ WF_vars(Next)

---------------------------------------------------------------------------
(* The properties of the reconciliation (SpecReconcile) *)

Count(s, x) == Cardinality({i \in 1..Len(s) : s[i] = x})

LocalNames == {local_repos[i].name : i \in 1..Len(local_repos)}

\* C1: find_new_repos returns no repository that is_known_repo accepts, and
\* every active remote repository is either known locally and absent from
\* new_repos, or not known and in new_repos exactly once; new_repos holds
\* nothing else.
C1_NewReposPartition ==
    pc = "reconciled" =>
        /\ \A i \in 1..Len(new_repos) :
              ~is_known_repo(new_repos[i], local_repos, github_team_prefix)
        /\ \A i \in 1..Len(github_team_repos) :
              LET r == github_team_repos[i]
              IN  IF is_known_repo(r, local_repos, github_team_prefix)
                  THEN Count(new_repos, r) = 0
                  ELSE Count(new_repos, r) = 1
        /\ Range(new_repos) \subseteq Range(github_team_repos)

\* two active remote repositories, one known locally and one new
C1_Witness ==
    /\ pc = "reconciled"
    /\ Len(github_team_repos) = 2
    /\ is_known_repo(github_team_repos[1], local_repos, github_team_prefix)
    /\ ~is_known_repo(github_team_repos[2], local_repos, github_team_prefix)
    /\ new_repos = <<github_team_repos[2]>>

---------------------------------------------------------------------------
(* The properties of the classification (SpecClassify) *)

UpperCase ==
    <<"A", "B", "C", "D", "E", "F", "G", "H", "I", "J", "K", "L", "M",
      "N", "O", "P", "Q", "R", "S", "T", "U", "V", "W", "X", "Y", "Z">>
LowerCase ==
    <<"a", "b", "c", "d", "e", "f", "g", "h", "i", "j", "k", "l", "m",
      "n", "o", "p", "q", "r", "s", "t", "u", "v", "w", "x", "y", "z">>

ToLowerChar(c) ==
    IF \E i \in 1..26 : UpperCase[i] = c
    THEN LowerCase[CHOOSE i \in 1..26 : UpperCase[i] = c]
    ELSE c

ToLower(s) == [i \in 1..Len(s) |-> ToLowerChar(s[i])]

\* sub occurs in s, whatever the case of the letters of s
ContainsIgnoringCase(s, sub) ==
    \E i \in 1..(Len(s) + 1) :
        /\ i + Len(sub) - 1 <= Len(s)
        /\ SubSeq(ToLower(s), i, i + Len(sub) - 1) = sub

\* the up-to-date sentinels the specification names
SentinelAlreadyUpToDate ==
    <<"a", "l", "r", "e", "a", "d", "y", " ", "u", "p", " ", "t", "o", " ", "d", "a", "t", "e">>
SentinelIsUpToDate ==
    <<"i", "s", " ", "u", "p", " ", "t", "o", " ", "d", "a", "t", "e">>
\* the notice of a successful rebase
SentinelRebased ==
    <<"s", "u", "c", "c", "e", "s", "s", "f", "u", "l", "l", "y", " ", "r", "e", "b", "a", "s", "e", "d">>

UpToDateStdout(out) ==
    \/ ContainsIgnoringCase(out, SentinelAlreadyUpToDate)
    \/ ContainsIgnoringCase(out, SentinelIsUpToDate)

BenignStderr(err) == ContainsIgnoringCase(err, SentinelRebased)

\* C3: a clone task's outcome is Cloned (Ok) only when git started and
\* exited with status zero; otherwise it is an error carrying the captured
\* stderr.
C3_CloneOutcome ==
    outcome.kind = "clone" =>
        IF output.spawned /\ output.status = 0
        THEN outcome.result.ok
        ELSE /\ ~outcome.result.ok
             /\ output.spawned => outcome.result.value.message = TrimAscii(output.stderr)

\* C4: a pull that ran with empty stderr and whose stdout holds an
\* up-to-date sentinel, in any letter case and anywhere in the text, is a
\* no-op (Ok with the empty message), never "updated".
C4_UpToDateIsNoOp ==
    (/\ outcome.kind = "pull"
     /\ output.spawned
     /\ output.stderr = <<>>
     /\ UpToDateStdout(output.stdout))
    => /\ outcome.result.ok
       /\ outcome.result.value.message = <<>>

\* C5: a pull that ran and whose stderr is a benign notice is classified
\* from its stdout and is Ok, not an error.
C5_BenignStderrIsOk ==
    (/\ outcome.kind = "pull"
     /\ output.spawned
     /\ BenignStderr(output.stderr))
    => outcome.result.ok

---------------------------------------------------------------------------
(* The property of the pagination of git.rs (SpecFetch) *)

\* C7: when every request succeeded, every repository of the endpoint that
\* is not archived and starts with the prefix is in the list returned.
C7_CompleteInventory ==
    (pc = "listed" /\ ~request_failed) =>
        \A i \in 1..Len(server) :
            (~server[i].archived /\ StartsWith(server[i].name, github_team_prefix))
            => server[i] \in Range(github_team_repos)

---------------------------------------------------------------------------
(* The properties of a run (Spec, FairSpec) *)

IsPull(t) == t.kind = "pull"
IsClone(t) == t.kind = "clone"
PullTasks == SelectSeq(threads, IsPull)
CloneTasks == SelectSeq(threads, IsClone)

AllFinished == \A i \in 1..Len(threads) : threads[i].state = "finished"

\* C2: no two spawned tasks have the same working-copy path.
C2_DisjointPaths ==
    \A i, j \in 1..Len(threads) :
        i # j => threads[i].path # threads[j].path

\* C8 (safety): when main reaches the report every spawned task has
\* finished and has been joined, one task was spawned for every local and
\* every new repository, and the two vectors hold one message a task.
C8_JoinedAll ==
    pc \in {"report", "done"} =>
        /\ AllFinished
        /\ joined = Len(threads)
        /\ Len(threads) = Len(local_repos) + Len(new_repos)
        /\ Len(ok_messages) + Len(error_messages) = Len(threads)

\* C8: failures are isolated and the join is full: in every interleaving and
\* for every combination of task failures the run reaches its end, the
\* report is produced only after every task has finished, and exactly one
\* outcome a spawned task has been collected; nothing is printed before.
C8_FullJoin ==
    /\ []C8_JoinedAll
    /\ [](printed # <<>> => pc = "done")
    /\ <>(pc = "done")

\* a run of four tasks ends although one pull could not be started and
\* another wrote to stderr
C8_Witness ==
    /\ pc = "done"
    /\ Len(threads) = 4
    /\ Len(error_messages) = 2
    /\ error_messages[1].message = TextPullingFailed \o TextNoSuchFile
    /\ error_messages[2].message = TextNotFound
    /\ Len(ok_messages) = 2

\* C9: once the pulls are spawned, the pull tasks are the local
\* repositories, one task each and in their order, whatever the endpoint
\* holds and whether its requests succeed; every other task is the clone of
\* a new repository.
C9_PullPerLocalRepo ==
    pc # "spawn_pulls" =>
        /\ Len(PullTasks) = Len(local_repos)
        /\ \A i \in 1..Len(local_repos) :
              /\ PullTasks[i].name = local_repos[i].name
              /\ PullTasks[i].path = local_repos[i].path
        /\ Len(CloneTasks) = Len(new_repos)
        /\ \A i \in 1..Len(new_repos) : CloneTasks[i].name = new_repos[i].name

\* two local repositories are pulled although the endpoint's only repository
\* is archived and matches neither of them, and a request failed
C9_Witness ==
    /\ pc = "done"
    /\ Len(local_repos) = 2
    /\ Len(PullTasks) = 2
    /\ Len(server) = 1
    /\ server[1].archived
    /\ ~is_known_repo(server[1], local_repos, github_team_prefix)
    /\ request_failed
    /\ CloneTasks = <<>>

\* the messages, in the order of the handles, of the handles joined so far
\* whose result is Ok (ok = TRUE) or Err (ok = FALSE)
RECURSIVE JoinedMessages(_, _)
JoinedMessages(k, ok) ==
    IF k = 0 THEN <<>>
    ELSE IF threads[k].result.ok = ok
         THEN Append(JoinedMessages(k - 1, ok), threads[k].result.value)
         ELSE JoinedMessages(k - 1, ok)

\* the order in which the tasks were spawned: the pulls in the order of the
\* local repositories, then the clones in the order of new_repos
SpawnOrder ==
    [i \in 1..(Len(local_repos) + Len(new_repos)) |->
        IF i <= Len(local_repos)
        THEN [kind |-> "pull", name |-> local_repos[i].name]
        ELSE [kind |-> "clone", name |-> new_repos[i - Len(local_repos)].name]]

\* C10: in each of the two vectors the messages are in the order in which
\* their tasks were spawned, whatever the order in which the tasks finished,
\* and the report prints the errors and then the others in that order: it
\* is a function of the inventories and the tasks' results alone.
C10_ReportInSpawnOrder ==
    pc \in {"joining", "report", "done"} =>
        /\ \A i \in 1..joined : threads[i].state = "finished"
        /\ [i \in 1..Len(threads) |-> [kind |-> threads[i].kind, name |-> threads[i].name]]
               = SpawnOrder
        /\ error_messages = JoinedMessages(joined, FALSE)
        /\ ok_messages = JoinedMessages(joined, TRUE)
        /\ \A i \in 1..Len(error_messages) :
              error_messages[i].name \in {threads[k].name : k \in 1..joined}
        /\ pc = "done" =>
              printed = print_git_message(JoinedMessages(Len(threads), FALSE), "ERROR in")
                        \o print_git_message(JoinedMessages(Len(threads), TRUE), "Info for")

\* the last task spawned has finished while the first is still running and
\* main waits for it
C10_WitnessOutOfOrder ==
    /\ pc = "joining"
    /\ joined = 0
    /\ Len(threads) = 4
    /\ threads[1].state = "running"
    /\ threads[2].state = "finished"
    /\ threads[4].state = "finished"

====
